---- MODULE Spec2Model ----
(***************************************************************************)
(* A model of mokapot's cross-validation driver (src/mokapot/brew.py) and  *)
(* of its Model class (src/mokapot/model.py).                              *)
(*                                                                         *)
(* Four specifications:                                                    *)
(*   Spec       brew() from its first line up to the end of the training   *)
(*              fan-out (lines 73-94) and the exit of the with block,      *)
(*              called repeatedly with the same model template.            *)
(*   SpecScore  the code of brew() after the fan-out (lines 96-100): the   *)
(*              held-out scoring call, the stitching of the fold scores    *)
(*              and the return, each applied to drawn inputs.  No run of   *)
(*              Spec gets there (every call of _fit_model raises, see      *)
(*              CallFitModel), so these lines are checked as functions of  *)
(*              what a normal end of the fan-out hands them.               *)
(*   SpecModel  one Model object under fit / decision_function / predict,  *)
(*              on PSMs with one target and one decoy.  A call that fit    *)
(*              makes of the estimator or of the dataset may raise.        *)
(*   SpecStart  the choice of the initial labels and the normalisation of  *)
(*              fit (lines 141-161) on PSMs with two targets and a decoy,  *)
(*              where two label vectors can differ with equal counts.      *)
(*                                                                         *)
(* Python values: None is the empty sequence <<>> and a present value v is *)
(* <<v>>, wherever a field may hold None.  PSM rows are 0..n-1 as in the   *)
(* code; sequences are 1-based, so position k of a Python list is k+1.     *)
(* The pandas and numpy calls are read by their row-selection contract:    *)
(* data.iloc[rows] selects the rows, a[idx] takes a[idx[k]] at position k. *)
(***************************************************************************)
EXTENDS Integers, Sequences, FiniteSets, TLC

VARIABLES
    \* ---- brew (Spec, SpecScore)
    psms,        \* the PSM collection passed to brew
    args,        \* brew's arguments, and which call of brew this is
    objs,        \* the Model objects by identity; 0 is the caller's template
    pc,          \* brew's position
    all_idx,     \* line 73
    test_idx,    \* line 74, and line 97 once flattened
    train_sets,  \* line 76
    test_sets,   \* line 77
    map_args,    \* lines 80-85, without the function
    futures,     \* the pool's futures, one per submitted fold task
    attempts,    \* how many times _fit_model was called for each fold
    models,      \* line 94
    exc,         \* the exception in flight, None when there is none
    scores,      \* lines 96 and 98
    predicted,   \* what the call of line 96 gave for each fold
    assign_calls,\* the calls of psms.assign_confidence made so far
    outcome,     \* how brew ended
    \* ---- Model (SpecModel, SpecStart)
    self,        \* the Model object
    fit,         \* the frame of the fit call in progress
    calls,       \* the collaborator calls made by the fit call in progress
    nfits,       \* the number of fit calls made so far
    last         \* the last operation since the last fit began, and its result

brewVars == <<psms, args, objs, pc, all_idx, test_idx, train_sets, test_sets,
              map_args, futures, attempts, models, exc, scores, predicted,
              assign_calls, outcome>>
modelVars == <<self, fit, calls, nfits, last>>
vars == <<brewVars, modelVars>>

\* ------------------------------------------------------------------ bounds
MaxRows == 4
MaxFolds == 3
MaxWorkers == 3
\* Model: the iteration budgets and the number of fit calls on one Model
\* object.
MaxIter == 2
MaxFits == 2
\* How many times the caller runs brew with the same model template.
MaxCalls == 2

\* ------------------------------------------------------------ Python values
None == <<>>
Some(v) == <<v>>

RECURSIVE Flatten(_)
\* sum(seqs, tuple()): the concatenation of the tuples, in order.
Flatten(seqs) ==
    IF seqs = <<>> THEN <<>> ELSE Head(seqs) \o Flatten(Tail(seqs))

Range(s) == {s[i] : i \in DOMAIN s}

\* How a call ends: an exception (named by its class) or a returned value.
Raise(error) == [kind |-> "raise", error |-> Some(error), value |-> None]
Return(value) == [kind |-> "return", error |-> None, value |-> Some(value)]

\* The attributes the code looks up on each kind of object it handles.
Attrs(kind) ==
    CASE kind = "Model" ->
             {"fit", "predict", "decision_function", "estimator", "scaler",
              "features", "is_trained"}
      [] kind = "PsmDataset" ->
             {"data", "features", "split", "calibrate_scores",
              "assign_confidence", "_find_best_feature", "_update_labels"}
      [] kind = "DataFrame" -> {"iloc", "columns", "values", "loc"}
      [] OTHER -> {}

HasAttr(obj, name) == name \in Attrs(obj.kind)

\* ------------------------------------------------------------- Model objects
\* Model.__init__ with the default arguments: the estimator is a grid search
\* over a linear SVM (it has an attribute "estimator"), the scaler a
\* StandardScaler; nothing is fit.  In an estimator record params and fitted
\* are those of the estimator the training loop fits (the inner estimator of
\* a search, which the search object refers to), cv is the search's own fit.
NewEstimator(search) ==
    [search |-> search, params |-> "base", fitted |-> None, cv |-> None]

NewModel ==
    [kind |-> "Model",
     estimator |-> NewEstimator(TRUE),
     scaler |-> [cls |-> "StandardScaler", fitted |-> None],
     features |-> None,
     is_trained |-> FALSE]

\* ------------------------------------------------------------------- brew
Rows(n) == 0 .. (n - 1)

Perms(n) ==
    {p \in [1..n -> Rows(n)] : \A i, j \in 1..n : i # j => p[i] # p[j]}

Cuts(n, k) ==
    {c \in [0..k -> 0..n] :
        c[0] = 0 /\ c[k] = n /\ \A i \in 1..k : c[i-1] < c[i]}

\* psms.split(k): every sequence of k disjoint, non-empty tuples of row
\* indices that together hold each row once, in any order.
Splits(n, k) ==
    {[i \in 1..k |-> SubSeq(p, c[i-1] + 1, c[i])] :
        p \in Perms(n), c \in Cuts(n, k)}

\* psms.data.iloc[rows]: a plain data frame holding the selected rows.
iloc(rows) == [kind |-> "DataFrame", rows |-> rows]

\* A training set that keeps the fold's own test rows.
TrainRows_KeepsTestRows(all, group) == all

\* Line 76: the rows of the training set of the fold whose test group is group.
TrainRows(all, group) == all \ Range(group)

\* Line 77: the rows of the test set of that fold.
TestRows(group) == group

\* Lines 80-85: the iterables handed to map after the function.
MapArgs(trains, clones, train_fdr, max_iter, folds) ==
    <<trains,
      clones,
      [i \in 1..folds |-> train_fdr],
      [i \in 1..folds |-> max_iter],
      [i \in 1..folds |-> i]>>

\* map and Executor.map call the function once per position of the shortest
\* iterable, with one positional argument from each iterable.
NumTasks(margs) ==
    CHOOSE m \in {Len(margs[j]) : j \in 1..Len(margs)} :
        \A j \in 1..Len(margs) : m <= Len(margs[j])

TaskArgs(margs, i) == [j \in 1..Len(margs) |-> margs[j][i]]

\* Lines 108-109: the parameters of _fit_model.
FitModelParams == <<"train_set", "model", "train_fdr", "max_iter">>

\* Lines 132-133: model.fit(train_set, ...) and return model.  Model.fit starts
\* by calling psms._find_best_feature (model.py line 140), which fails on an
\* object that has no such attribute; otherwise the model comes back trained
\* on the columns of the training set.
_fit_model(train_set, model, train_fdr, max_iter) ==
    IF ~HasAttr(train_set, "_find_best_feature")
    THEN Raise("AttributeError")
    ELSE Return([model EXCEPT !.is_trained = TRUE,
                              !.features = Some(train_set.cols),
                              !.estimator = [@ EXCEPT !.search = FALSE]])

\* One call made by map: _fit_model(*a).  Python binds the positional
\* arguments to the parameters before the body runs, and raises TypeError
\* when their numbers differ.
CallFitModel(a, heap) ==
    IF Len(a) # Len(FitModelParams)
    THEN Raise("TypeError")
    ELSE _fit_model(a[1], heap[a[2]], a[3], a[4])

Fdrs == {1, 5}
\* brew's default max_iter (line 23).
DefaultMaxIter == 10

BrewIdle ==
    /\ psms = None /\ args = None /\ objs = None /\ pc = "idle"
    /\ all_idx = {} /\ test_idx = None /\ train_sets = None
    /\ test_sets = None /\ map_args = None /\ futures = None
    /\ attempts = None /\ models = None /\ exc = None /\ scores = None
    /\ predicted = None /\ assign_calls = None /\ outcome = None

ModelIdle ==
    /\ self = None /\ fit = None /\ calls = None /\ nfits = 0 /\ last = None

Init ==
    /\ \E n \in 2..MaxRows : psms = [kind |-> "PsmDataset", n |-> n]
    /\ \E k \in 2..MaxFolds, w \in 1..MaxWorkers :
         /\ k <= psms.n
         /\ args = [model |-> 0, train_fdr |-> 1, test_fdr |-> 1,
                    max_iter |-> DefaultMaxIter, folds |-> k,
                    max_workers |-> w, call |-> 1]
    /\ objs = (0 :> NewModel)
    /\ pc = "start"
    /\ all_idx = {}
    /\ test_idx = None
    /\ train_sets = None
    /\ test_sets = None
    /\ map_args = None
    /\ futures = None
    /\ attempts = None
    /\ models = None
    /\ exc = None
    /\ scores = None
    /\ predicted = None
    /\ assign_calls = None
    /\ outcome = None
    /\ ModelIdle

\* Lines 73-77.
Split ==
    /\ pc = "start"
    /\ \E s \in Splits(psms.n, args.folds) :
         /\ test_idx' = s
         /\ all_idx' = Rows(psms.n)
         /\ train_sets' =
              [i \in 1..Len(s) |-> iloc(TrainRows(Rows(psms.n), s[i]))]
         /\ test_sets' = [i \in 1..Len(s) |-> iloc(TestRows(s[i]))]
    /\ pc' = "args"
    /\ UNCHANGED <<psms, args, objs, map_args, futures, attempts, models, exc,
                   scores, predicted, assign_calls, outcome, modelVars>>

\* copy.deepcopy(model): a new object with the same state.
DeepCopies(heap, src, count) ==
    [id \in DOMAIN heap \cup 1..count |->
        IF id \in DOMAIN heap THEN heap[id] ELSE heap[src]]

\* The template itself handed to every fold.
Clones_Shared(src, count) == [i \in 1..count |-> src]

\* Line 82: the list of the models given to the folds, one new object (a
\* deep copy of the template src) for each fold.
Clones(src, count) == [i \in 1..count |-> i]

\* Lines 80-85.
BuildArgs ==
    /\ pc = "args"
    /\ objs' = DeepCopies(objs, args.model, args.folds)
    /\ map_args' = MapArgs(train_sets, Clones(args.model, args.folds),
                           args.train_fdr, args.max_iter, args.folds)
    /\ attempts' = [i \in 1..args.folds |-> 0]
    /\ pc' = "pool"
    /\ UNCHANGED <<psms, args, all_idx, test_idx, train_sets, test_sets,
                   futures, models, exc, scores, predicted, assign_calls,
                   outcome, modelVars>>

\* Lines 88-92 and the call of map_fun in line 94: map is lazy, prc.map
\* submits every task at once.
OpenPool ==
    /\ pc = "pool"
    /\ models' = <<>>
    /\ IF args.max_workers = 1
       THEN /\ pc' = "map"
            /\ futures' = <<>>
       ELSE /\ pc' = "prc_map"
            /\ futures' = [i \in 1..NumTasks(map_args) |->
                              [state |-> "queued", result |-> None]]
    /\ UNCHANGED <<psms, args, objs, all_idx, test_idx, train_sets,
                   test_sets, map_args, attempts, exc, scores, predicted,
                   assign_calls, outcome, modelVars>>

\* What the iteration of the map result does with the result of task i:
\* an exception ends the iteration and is re-raised in brew, a returned
\* model is appended to the list being built.
Reraises(result) == result.kind = "raise"

NewId(heap) == CHOOSE id \in 1..(Cardinality(DOMAIN heap) + 1) : id \notin DOMAIN heap

\* Line 94 with map_fun = map: the next item of the lazy map calls _fit_model
\* in this process, on the clone itself.
MapNext ==
    /\ pc = "map"
    /\ LET i == Len(models) + 1 IN
       IF i > NumTasks(map_args)
       THEN /\ pc' = "exit_with"
            /\ UNCHANGED <<objs, attempts, models, exc>>
       ELSE LET a == TaskArgs(map_args, i)
                r == CallFitModel(a, objs)
            IN /\ attempts' = [attempts EXCEPT ![i] = @ + 1]
               /\ IF Reraises(r)
                  THEN /\ exc' = Some([error |-> r.error[1], task |-> i])
                       /\ pc' = "exit_with"
                       /\ UNCHANGED <<objs, models>>
                  ELSE /\ objs' = [objs EXCEPT ![a[2]] = r.value[1]]
                       /\ models' = Append(models, a[2])
                       /\ UNCHANGED <<pc, exc>>
    /\ UNCHANGED <<psms, args, all_idx, test_idx, train_sets, test_sets,
                   map_args, futures, scores, predicted, assign_calls,
                   outcome, modelVars>>

Running(fs) == {i \in DOMAIN fs : fs[i].state = "running"}
Queued(fs) == {i \in DOMAIN fs : fs[i].state = "queued"}

\* A worker process takes the oldest queued task; at most max_workers run.
WorkerStart ==
    /\ pc \in {"prc_map", "exit_with"}
    /\ Queued(futures) # {}
    /\ Cardinality(Running(futures)) < args.max_workers
    /\ LET i == CHOOSE q \in Queued(futures) :
                    \A o \in Queued(futures) : q <= o
       IN futures' = [futures EXCEPT ![i].state = "running"]
    /\ UNCHANGED <<psms, args, objs, pc, all_idx, test_idx, train_sets,
                   test_sets, map_args, attempts, models, exc, scores,
                   predicted, assign_calls, outcome, modelVars>>

\* A worker process ends the call of _fit_model on its own copies of the
\* arguments; the future holds what the call returned or raised.
WorkerFinish ==
    /\ pc \in {"prc_map", "exit_with"}
    /\ \E i \in Running(futures) :
         LET r == CallFitModel(TaskArgs(map_args, i), objs) IN
         /\ futures' = [futures EXCEPT
                          ![i] = [state |-> IF r.kind = "raise"
                                            THEN "raised" ELSE "returned",
                                  result |-> Some(r)]]
         /\ attempts' = [attempts EXCEPT ![i] = @ + 1]
    /\ UNCHANGED <<psms, args, objs, pc, all_idx, test_idx, train_sets,
                   test_sets, map_args, models, exc, scores, predicted,
                   assign_calls, outcome, modelVars>>

\* Line 94 with map_fun = prc.map: the results are taken in submission
\* order, each once its task has ended; an exception cancels the tasks that
\* have not started and is re-raised in brew.
Gather ==
    /\ pc = "prc_map"
    /\ LET i == Len(models) + 1 IN
       IF i > NumTasks(map_args)
       THEN /\ pc' = "exit_with"
            /\ UNCHANGED <<objs, futures, models, exc>>
       ELSE /\ futures[i].state \in {"raised", "returned"}
            /\ LET r == futures[i].result[1] IN
               IF Reraises(r)
               THEN /\ exc' = Some([error |-> r.error[1], task |-> i])
                    /\ futures' =
                         [j \in DOMAIN futures |->
                            IF futures[j].state = "queued"
                            THEN [futures[j] EXCEPT !.state = "cancelled"]
                            ELSE futures[j]]
                    /\ pc' = "exit_with"
                    /\ UNCHANGED <<objs, models>>
               ELSE /\ objs' = (NewId(objs) :> r.value[1]) @@ objs
                    /\ models' = Append(models, NewId(objs))
                    /\ UNCHANGED <<pc, futures, exc>>
    /\ UNCHANGED <<psms, args, all_idx, test_idx, train_sets, test_sets,
                   map_args, attempts, scores, predicted, assign_calls,
                   outcome, modelVars>>

\* A with block that swallows the exception in flight.
AfterWith_Swallows(e) == "scoring"

\* Where brew goes when the with block ends: the with statement does not
\* handle the exception in flight e, which leaves brew; with none, line 96.
AfterWith(e) == IF e # None THEN "ended" ELSE "scoring"

\* The end of the with block (line 88): the pool is shut down once no task
\* is queued or running.  An exception in flight then leaves brew; otherwise
\* brew goes on to line 96.
ExitWith ==
    /\ pc = "exit_with"
    /\ Queued(futures) = {} /\ Running(futures) = {}
    /\ pc' = AfterWith(exc)
    /\ outcome' = IF pc' = "ended" THEN Some(Raise(exc[1].error)) ELSE outcome
    /\ UNCHANGED <<psms, args, objs, all_idx, test_idx, train_sets,
                   test_sets, map_args, futures, attempts, models, exc,
                   scores, predicted, assign_calls, modelVars>>

\* Lines 19-26: the caller runs brew again with the same model object (the
\* default Model() of line 20 is made once, when brew is defined, and is
\* the same object in every call that leaves model out).  The objects of
\* the call that ended are gone; args.call counts the calls.
BrewAgain ==
    /\ pc = "ended"
    /\ args.call < MaxCalls
    /\ \E n \in 2..MaxRows, k \in 2..MaxFolds, w \in 1..MaxWorkers :
         /\ k <= n
         /\ psms' = [kind |-> "PsmDataset", n |-> n]
         /\ args' = [args EXCEPT !.folds = k, !.max_workers = w,
                                 !.call = @ + 1]
    /\ objs' = (args.model :> objs[args.model])
    /\ pc' = "start"
    /\ all_idx' = {}
    /\ test_idx' = None /\ train_sets' = None /\ test_sets' = None
    /\ map_args' = None /\ futures' = None /\ attempts' = None
    /\ models' = None /\ exc' = None /\ outcome' = None
    /\ UNCHANGED <<scores, predicted, assign_calls, modelVars>>

Next ==
    \/ Split
    \/ BuildArgs
    \/ OpenPool
    \/ MapNext
    \/ WorkerStart
    \/ WorkerFinish
    \/ Gather
    \/ ExitWith
    \/ BrewAgain

Spec == Init /\ [][Next]_vars

\* ------------------------------------------------- brew after the fan-out
\* The calibrated score of PSM row under a model whose estimator was fit on
\* the rows trained_on, at threshold fdr, as
\* psms.calibrate_scores(model.predict(psms), fdr_threshold=fdr) gives it.
Cal(row, trained_on, fdr) ==
    [row |-> row, trained_on |-> trained_on, fdr |-> fdr]

\* Lines 104-106: psms.calibrate_scores(model.predict(psms), ...).  The
\* attribute psms.calibrate_scores is looked up first, then model.predict.
_predict(psms_, model, test_fdr) ==
    IF ~HasAttr(psms_, "calibrate_scores") THEN Raise("AttributeError")
    ELSE IF ~HasAttr(model, "predict") THEN Raise("AttributeError")
    ELSE Return([j \in 1..Len(psms_.rows) |->
                    Cal(psms_.rows[j], model.estimator.fitted[1], test_fdr)])

\* Line 96: _predict(p, m, test_fdr) for p, m in zip(models, test_sets).
\* p is the model and m the test set of the same fold, and they are passed
\* in this order.
PredictCall(model, test_set, test_fdr) == _predict(model, test_set, test_fdr)

\* a[idx]: position k holds a[idx[k]].
Take(a, idx) == [k \in 1..Len(idx) |-> a[idx[k] + 1]]

\* Lines 97-98: np.concatenate(scores)[sum(test_idx, tuple())].
Stitch(fold_scores, tidx) == Take(Flatten(fold_scores), Flatten(tidx))

\* psms.assign_confidence(scores, other, desc): the confidence report.
assign_confidence(scores_, other, desc) ==
    [type |-> "PsmConfidence",
     items |-> <<[scores |-> scores_, other |-> other, desc |-> desc]>>]

\* Line 100: what brew returns, given the report and the trained models.
BrewReturn(report, trained) == report

\* The model a fold's task hands back when it ends normally: a clone of the
\* template trained on the rows of the fold's training set.
TrainedClone(train_set) ==
    [NewModel EXCEPT !.is_trained = TRUE,
                     !.features = Some(<<"f1", "f2">>),
                     !.estimator = [search |-> FALSE, params |-> "best",
                                    fitted |-> Some(train_set.rows),
                                    cv |-> None]]

InitScore ==
    /\ \E n \in 2..MaxRows : psms = [kind |-> "PsmDataset", n |-> n]
    /\ \E k \in 2..MaxFolds, tf \in Fdrs :
         /\ k <= psms.n
         /\ args = [model |-> 0, train_fdr |-> 1, test_fdr |-> tf,
                    max_iter |-> DefaultMaxIter, folds |-> k,
                    max_workers |-> 1, call |-> 1]
    /\ all_idx = Rows(psms.n)
    /\ test_idx \in Splits(psms.n, args.folds)
    /\ train_sets = [i \in 1..args.folds |->
                        iloc(TrainRows(all_idx, test_idx[i]))]
    /\ test_sets = [i \in 1..args.folds |-> iloc(TestRows(test_idx[i]))]
    /\ objs = [id \in 0..args.folds |->
                 IF id = 0 THEN NewModel
                 ELSE TrainedClone(train_sets[id])]
    /\ map_args = MapArgs(train_sets, [i \in 1..args.folds |-> i],
                          args.train_fdr, args.max_iter, args.folds)
    /\ futures = <<>>
    /\ attempts = [i \in 1..args.folds |-> 1]
    /\ models = [i \in 1..args.folds |-> i]
    /\ exc = None
    /\ scores = [i \in 1..args.folds |->
                    [j \in 1..Len(test_idx[i]) |->
                        Cal(test_idx[i][j], train_sets[i].rows,
                            args.test_fdr)]]
    /\ predicted = [i \in 1..args.folds |-> None]
    /\ assign_calls = <<>>
    /\ outcome = None
    /\ pc = "scoring"
    /\ ModelIdle

\* Line 96, one element of the list: the held-out scoring call of a fold.
PredictFold ==
    /\ \E i \in 1..Len(models) :
         /\ predicted[i] = None
         /\ predicted' =
              [predicted EXCEPT
                 ![i] = Some(PredictCall(objs[models[i]], test_sets[i],
                                         args.test_fdr))]
    /\ UNCHANGED <<psms, args, objs, pc, all_idx, test_idx, train_sets,
                   test_sets, map_args, futures, attempts, models, exc,
                   scores, assign_calls, outcome, modelVars>>

\* Lines 97-98.
StitchScores ==
    /\ pc = "scoring"
    /\ test_idx' = Flatten(test_idx)
    /\ scores' = Stitch(scores, test_idx)
    /\ pc' = "line100"
    /\ UNCHANGED <<psms, args, objs, all_idx, train_sets, test_sets,
                   map_args, futures, attempts, models, exc, predicted,
                   assign_calls, outcome, modelVars>>

\* Line 100.
AssignAndReturn ==
    /\ pc = "line100"
    /\ LET report == assign_confidence(scores, None, TRUE) IN
       /\ assign_calls' = Append(assign_calls, report.items[1])
       /\ outcome' = Some(Return(BrewReturn(report, models)))
    /\ pc' = "ended"
    /\ UNCHANGED <<psms, args, objs, all_idx, test_idx, train_sets,
                   test_sets, map_args, futures, attempts, models, exc,
                   scores, predicted, modelVars>>

NextScore ==
    \/ PredictFold
    \/ StitchScores
    \/ AssignAndReturn

SpecScore == InitScore /\ [][NextScore]_vars

\* ------------------------------------------------------- claims about brew
TaskRaised(i) ==
    \/ exc # None /\ exc[1].task = i
    \/ i \in DOMAIN futures /\ futures[i].state = "raised"

\* C1: with valid arguments brew runs every fold's training task to
\* completion without raising, goes on to the held-out scoring and hands
\* assign_confidence one score per PSM row.
C1_BrewRunsEveryFoldWithoutRaising ==
    /\ exc = None
    /\ pc = "ended" =>
         /\ outcome[1].kind = "return"
         /\ Len(assign_calls) = 1
         /\ Len(assign_calls[1].scores) = psms.n

\* C6: for every fold the training set is exactly the rows outside the
\* fold's test group and the test set exactly the group: they are disjoint,
\* together they are all rows, and every row is in exactly one test set.
C6_TrainIsComplementOfTest ==
    pc \notin {"start"} =>
      /\ Len(train_sets) = args.folds
      /\ Len(test_sets) = args.folds
      /\ \A i \in 1..args.folds :
           /\ test_sets[i].rows = test_idx[i]
           /\ train_sets[i].rows \cap Range(test_sets[i].rows) = {}
           /\ train_sets[i].rows \cup Range(test_sets[i].rows) = Rows(psms.n)
      /\ \A r \in Rows(psms.n) :
           Cardinality({ij \in {<<i, j>> : i \in 1..args.folds, j \in 1..psms.n} :
                          /\ ij[2] <= Len(test_sets[ij[1]].rows)
                          /\ test_sets[ij[1]].rows[ij[2]] = r}) = 1

C6_Witness ==
    /\ pc = "args"
    /\ psms.n = 4
    /\ args.folds = 3
    /\ test_idx = <<(<<2, 0>>), (<<3>>), (<<1>>)>>
    /\ train_sets[1].rows = {1, 3}
    /\ train_sets[2].rows = {0, 1, 2}
    /\ train_sets[3].rows = {0, 2, 3}

\* C10: once a fold's training task has raised, that fold is never run
\* again, brew never reaches the scoring of line 96 nor assign_confidence,
\* and when brew ends it ends by raising the error of the first failed fold
\* in fold order, returning neither a report nor models.
C10_TrainingFailureAbortsBrew ==
    /\ attempts # None => \A i \in DOMAIN attempts : attempts[i] <= 1
    /\ (\E i \in 1..MaxFolds + 1 : TaskRaised(i)) =>
         /\ pc # "scoring"
         /\ assign_calls = None
         /\ pc = "ended" =>
              /\ outcome[1].kind = "raise"
              /\ outcome[1].value = None
              /\ outcome[1].error = Some(exc[1].error)
              /\ TaskRaised(exc[1].task)
              /\ \A j \in 1..(exc[1].task - 1) : ~TaskRaised(j)

C10_Witness ==
    /\ pc = "ended"
    /\ args.max_workers > 1
    /\ outcome[1].kind = "raise"
    /\ exc[1].task = 1
    /\ \E i \in DOMAIN futures : i > 1 /\ futures[i].state = "raised"
    /\ \E i \in DOMAIN futures : futures[i].state = "cancelled"

\* Where the sequential run (max_workers = 1) leaves the fan-out on the same
\* inputs: it ends brew at the first task that raises.
SequentialEnd(margs, heap) ==
    IF \E i \in 1..NumTasks(margs) :
          CallFitModel(TaskArgs(margs, i), heap).kind = "raise"
    THEN "ended"
    ELSE "scoring"

\* C5: for every number of workers and every completion order of the fold
\* tasks brew leaves the fan-out the way the sequential run does on the same
\* inputs, with the models of all folds, and goes on to produce the per-PSM
\* score vector.
C5_SameScoresForAnyWorkers ==
    pc \in {"ended", "scoring"} =>
      /\ pc = SequentialEnd(map_args, objs)
      /\ pc = "scoring"
      /\ Len(models) = args.folds

\* C2: brew returns the pair of the report of assign_confidence and the
\* tuple of the trained models in fold order.
C2_ReturnsReportAndModels ==
    (pc = "ended" /\ outcome[1].kind = "return") =>
      LET v == outcome[1].value[1] IN
      /\ v.type = "tuple"
      /\ Len(v.items) = 2
      /\ v.items[1] = assign_confidence(scores, None, TRUE)
      /\ v.items[2] = models

\* C3: position r of the vector passed to assign_confidence holds the
\* calibrated score computed for PSM row r, for every fold partition.
C3_ScoresInOriginalRowOrder ==
    pc \in {"line100", "ended"} =>
      /\ Len(scores) = psms.n
      /\ \A r \in Rows(psms.n) : scores[r + 1].row = r

\* C4: the held-out scoring of fold i gives, for each row of test group i,
\* the score of the model trained on the complement of group i, calibrated
\* at test_fdr.
C4_HeldOutScoring ==
    \A i \in DOMAIN predicted :
      predicted[i] # None =>
        /\ predicted[i][1].kind = "return"
        /\ predicted[i][1].value[1] =
             [j \in 1..Len(test_sets[i].rows) |->
                Cal(test_sets[i].rows[j], train_sets[i].rows, args.test_fdr)]
        /\ \A j \in 1..Len(test_sets[i].rows) :
             test_sets[i].rows[j] \notin train_sets[i].rows

\* C11: brew makes one clone of the model template per fold; the models
\* handed to the fold tasks are pairwise different objects and none of them
\* is the template; a task changes no model but the one handed to it; and
\* the template has the is_trained flag, features, estimator and scaler it
\* had before the first call, during and after every call of brew, for
\* every folds and max_workers.
C11_FoldsGetOwnClones ==
    /\ objs[args.model] = NewModel
    /\ map_args # None =>
         LET given == map_args[2] IN
         /\ Len(given) = args.folds
         /\ \A i \in DOMAIN given :
              /\ given[i] # args.model
              /\ given[i] \in DOMAIN objs
              /\ \A j \in DOMAIN given : i # j => given[i] # given[j]
         /\ \A id \in DOMAIN objs :
              \/ id \in Range(given)
              \/ objs[id] = NewModel

C11_Witness ==
    /\ pc = "ended"
    /\ args.call = 2
    /\ args.max_workers = 2
    /\ args.folds = 3
    /\ \A i \in 1..3 : attempts[i] = 1
    /\ Cardinality(DOMAIN objs) = 4

\* ------------------------------------------------------------------ Model
FeatureNames == {"f1", "f2"}

\* The feature columns a PSM collection can have: one of the features, or
\* both in either order.
ColumnOrders ==
    {c \in UNION {[1..k -> FeatureNames] : k \in 1..Cardinality(FeatureNames)} :
        /\ \A i, j \in DOMAIN c : i # j => c[i] # c[j]
        /\ "f1" \in Range(c)}

\* The PSM collections given to a Model: the same PSMs, a target (row 0) and
\* a decoy (row 1), with the feature columns of ColumnOrders.
PsmRows == {0, 1}
IsTarget(r) == r # 1

Datasets ==
    {[kind |-> "PsmDataset", cols |-> c, rows |-> PsmRows] :
        c \in ColumnOrders}

\* The label vectors of the dataset collaborator (_find_best_feature,
\* _update_labels): -1 for a decoy, +1 for a target that passes the
\* threshold, 0 for a target that does not.
LabelVectors(psms_) ==
    {l \in [psms_.rows -> {-1, 0, 1}] :
        \A r \in psms_.rows :
           IF IsTarget(r) THEN l[r] \in {0, 1} ELSE l[r] = -1}

\* What is handed to a scaler or an estimator: the feature matrix
\* psms.features[cols].values, the PSM collection itself, or one feature
\* column; scaled holds the fit of the scaler that transformed it.
Matrix(psms_, cols) ==
    [what |-> "matrix", cols |-> cols, scaled |-> None]
Collection(psms_) ==
    [what |-> "psms", cols |-> psms_.cols, scaled |-> None]
Column(psms_, name) ==
    [what |-> "column", cols |-> <<name>>, scaled |-> None]

\* Lines 75-80 and 200-214: "as-is" gives a DummyScaler, which returns its
\* input; any other scaler learns from the matrix it is fit on and applies
\* what it learned.
Scalers == {[cls |-> "StandardScaler", fitted |-> None],
            [cls |-> "DummyScaler", fitted |-> None]}

ScalerFit(scaler, x) ==
    IF scaler.cls = "DummyScaler" THEN scaler
    ELSE [scaler EXCEPT !.fitted = Some(x.cols)]

transform(scaler, x) ==
    IF scaler.cls = "DummyScaler" THEN x
    ELSE [x EXCEPT !.scaled = scaler.fitted]

\* Lines 62-80: a new Model; search says whether the estimator is a
\* hyperparameter search over an inner estimator (the default is).
Models0 ==
    {[NewModel EXCEPT !.estimator = NewEstimator(srch), !.scaler = sc] :
        srch \in BOOLEAN, sc \in Scalers}

\* Every row kept, the rows labelled 0 recoded to 0.
Batch_AllRows(labels) ==
    [rows |-> DOMAIN labels,
     targ |-> {<<r, (labels[r] + 1) \div 2>> : r \in DOMAIN labels}]

\* Lines 182-183 (and 166-167): the rows whose label is not 0, each with its
\* label recoded (label + 1) / 2.
Batch(labels) ==
    LET rows == {r \in DOMAIN labels : labels[r] # 0} IN
    [rows |-> rows, targ |-> {<<r, (labels[r] + 1) \div 2>> : r \in rows}]

\* estimator.fit(x[rows], targ): the estimator's state is its last fit.
EstimatorFit(est, x, labels) ==
    [est EXCEPT !.fitted = Some([x |-> x, batch |-> Batch(labels)])]

\* estimator.decision_function(x): one score per row of x, decided by the
\* estimator's parameters and last fit; an estimator never fit raises.
EstimatorDecision(est, x) ==
    IF est.fitted = None THEN Raise("NotFittedError(estimator)")
    ELSE Return([of |-> "decision", params |-> est.params,
                 fitted |-> est.fitted, x |-> x])

\* psms.features[name].values used as the score of each PSM.
FeatureScores(psms_, name) ==
    [of |-> "feature", params |-> "", fitted |-> None,
     x |-> Column(psms_, name)]

\* The feature check done before the trained check.
decision_function_FeaturesFirst(m, psms_) ==
    IF m.features = None THEN Raise("TypeError")
    ELSE IF Range(psms_.cols) # Range(m.features[1]) THEN Raise("ValueError")
    ELSE IF ~m.is_trained THEN Raise("NotFittedError")
    ELSE EstimatorDecision(m.estimator,
                           transform(m.scaler, Matrix(psms_, m.features[1])))

\* Lines 97-106.
decision_function(m, psms_) ==
    IF ~m.is_trained THEN Raise("NotFittedError")
    ELSE IF Range(psms_.cols) # Range(m.features[1]) THEN Raise("ValueError")
    ELSE EstimatorDecision(m.estimator,
                           transform(m.scaler, Matrix(psms_, m.features[1])))

\* Lines 108-110.
predict(m, psms_) == decision_function(m, psms_)

InitModel ==
    /\ BrewIdle
    /\ self \in Models0
    /\ fit = None
    /\ calls = <<>>
    /\ nfits = 0
    /\ last = None

\* A call of decision_function or predict on the Model, from start to end.
Score ==
    /\ fit = None
    /\ \E op \in {"decision_function", "predict"}, d \in Datasets :
         last' = Some([op |-> op, psms |-> d, before |-> self,
                       result |-> IF op = "predict" THEN predict(self, d)
                                  ELSE decision_function(self, d)])
    /\ UNCHANGED <<self, fit, calls, nfits, brewVars>>

\* One call of the dataset collaborator, as the fit call made it:
\* _find_best_feature(fdr) or _update_labels(scores, fdr_threshold, desc).
\* A keyword left out is None (the collaborator's default applies).
Call(fn, scores_, fdr, desc) ==
    [fn |-> fn, scores |-> scores_, fdr |-> fdr, desc |-> desc]

NumPos(labels) == Cardinality({r \in DOMAIN labels : labels[r] = 1})

\* The ascending labels kept when the counts are equal.
PickDirection_AscOnTie(desc_labels, asc_labels) ==
    IF NumPos(desc_labels) > NumPos(asc_labels)
    THEN desc_labels ELSE asc_labels

\* Lines 154-157: the labels of the explicit starting feature.
PickDirection(desc_labels, asc_labels) ==
    IF NumPos(desc_labels) >= NumPos(asc_labels)
    THEN desc_labels ELSE asc_labels

\* What is kept of a fit call once it has ended: max_iter, the model it was
\* entered with, how it ended, the pass counts it logged (lines 191-193) and
\* the number of searches it fit.
FitRecord(f, result) ==
    Some([op |-> "fit", before |-> f.entry,
          result |-> result, max_iter |-> f.max_iter,
          num_passed |-> f.num_passed, searches |-> f.searches])

\* A loop that also ends when the pass count is that of the round before,
\* or zero.
LoopDone_Converged(i, max_iter, num_passed) ==
    \/ i >= max_iter
    \/ /\ i >= 1
       /\ \/ num_passed[i] = 0
          \/ i >= 2 /\ num_passed[i] = num_passed[i - 1]

\* Line 180: for i in range(max_iter) is over after max_iter rounds
\* whatever was logged.
LoopDone(i, max_iter, num_passed) == i >= max_iter

\* The arguments and local variables of a fit call on the model m once
\* line 140 has run (fl is the label vector of _find_best_feature), and the
\* directions a caller can give for the PSMs d.
Frame(m, d, tf, mi, dir, fl) ==
    [pc |-> "line141", psms |-> d, train_fdr |-> tf,
     max_iter |-> mi, direction |-> dir,
     entry |-> m, feat_labels |-> Some(fl),
     start_labels |-> None, norm_feat |-> None,
     desc_labels |-> None, asc_labels |-> None,
     target |-> None, num_passed |-> <<>>, i |-> 0,
     searches |-> 0]

Directions(d) == {None} \cup {Some(c) : c \in Range(d.cols)}

\* Lines 112 and 138-140: fit is entered and asks the collaborator for the
\* best single feature.
FitBegin ==
    /\ fit = None
    /\ nfits < MaxFits
    /\ \E d \in Datasets, tf \in Fdrs, mi \in 0..MaxIter :
         \E fl \in LabelVectors(d), dir \in Directions(d) :
           /\ fit' = Some(Frame(self, d, tf, mi, dir, fl))
           /\ calls' = <<Call("_find_best_feature", None, Some(tf), TRUE)>>
    /\ nfits' = nfits + 1
    /\ last' = None
    /\ UNCHANGED <<self, brewVars>>

\* Lines 141-157: the initial working labels.
FitStartLabels ==
    /\ fit # None
    /\ fit[1].pc = "line141"
    /\ LET f == fit[1] IN
       IF f.direction = None /\ ~self.is_trained
       THEN /\ fit' = Some([f EXCEPT !.start_labels = f.feat_labels,
                                     !.pc = "line160"])
            /\ UNCHANGED <<calls, last>>
       ELSE IF self.is_trained
       THEN LET r == EstimatorDecision(self.estimator, Collection(f.psms)) IN
            IF r.kind = "raise"
            THEN /\ fit' = None
                 /\ last' = FitRecord(f, r)
                 /\ calls' = <<>>
            ELSE \E l \in LabelVectors(f.psms) :
                   /\ calls' = Append(calls,
                                 Call("_update_labels", r.value,
                                      Some(f.train_fdr), TRUE))
                   /\ fit' = Some([f EXCEPT !.start_labels = Some(l),
                                            !.pc = "line160"])
                   /\ UNCHANGED last
       ELSE \E dl \in LabelVectors(f.psms), al \in LabelVectors(f.psms) :
              LET col == Some(FeatureScores(f.psms, f.direction[1])) IN
              /\ calls' = calls \o
                            <<Call("_update_labels", col, None, TRUE),
                              Call("_update_labels", col, None, FALSE)>>
              /\ fit' = Some([f EXCEPT
                                !.desc_labels = Some(dl),
                                !.asc_labels = Some(al),
                                !.start_labels = Some(PickDirection(dl, al)),
                                !.pc = "line160"])
              /\ UNCHANGED last
    /\ UNCHANGED <<self, nfits, brewVars>>

\* Lines 159-161: the feature names are stored and the scaler is fit on the
\* whole feature matrix.
FitNormalize ==
    /\ fit # None
    /\ fit[1].pc = "line160"
    /\ LET f == fit[1]
           x == Matrix(f.psms, f.psms.cols)
           sc == ScalerFit(self.scaler, x)
       IN /\ self' = [self EXCEPT !.features = Some(f.psms.cols),
                                  !.scaler = sc]
          /\ fit' = Some([f EXCEPT !.norm_feat = Some(transform(sc, x)),
                                   !.pc = "line164"])
    /\ UNCHANGED <<calls, nfits, last, brewVars>>

\* Lines 163-174: a search wrapper is fit on the rows picked by feat_labels
\* and its best parameters are set on its inner estimator, which is the
\* estimator the loop fits; any other estimator is used as it is.  Line 177:
\* the loop starts from start_labels; feat_labels, start_labels, desc_labels
\* and asc_labels are not read again.  searches counts the calls of the search's fit (line 168).
FitSearch ==
    /\ fit # None
    /\ fit[1].pc = "line164"
    /\ LET f == fit[1] IN
       /\ self' =
            IF self.estimator.search
            THEN [self EXCEPT
                    !.estimator.cv =
                        Some([x |-> f.norm_feat[1],
                              batch |-> Batch(f.feat_labels[1])]),
                    !.estimator.params = "best"]
            ELSE self
       /\ fit' = Some([f EXCEPT !.target = f.start_labels,
                                !.feat_labels = None,
                                !.start_labels = None,
                                !.desc_labels = None,
                                !.asc_labels = None,
                                !.searches = IF self.estimator.search
                                             THEN @ + 1 ELSE @,
                                !.pc = "loop"])
    /\ UNCHANGED <<calls, nfits, last, brewVars>>

\* Lines 180-193: one round of the loop.
FitIter ==
    /\ fit # None
    /\ fit[1].pc = "loop"
    /\ ~LoopDone(fit[1].i, fit[1].max_iter, fit[1].num_passed)
    /\ LET f == fit[1]
           est == EstimatorFit(self.estimator, f.norm_feat[1], f.target[1])
           sc == EstimatorDecision(est, f.norm_feat[1])
       IN /\ self' = [self EXCEPT !.estimator = est]
          /\ \E l \in LabelVectors(f.psms) :
               /\ calls' = Append(calls,
                             Call("_update_labels", sc.value,
                                  Some(f.train_fdr), TRUE))
               /\ fit' = Some([f EXCEPT
                                 !.target = Some(l),
                                 !.num_passed = Append(@, NumPos(l)),
                                 !.i = @ + 1])
    /\ UNCHANGED <<nfits, last, brewVars>>

\* A call made by fit raises and the exception leaves fit, which handles
\* none: the fit of the search (line 168), the fit of the estimator in a
\* round (line 184), or the relabelling of a round (line 190), which comes
\* after the estimator has been fit in place.  What fit has assigned to the
\* Model by then stays.
FitRaises ==
    /\ fit # None
    /\ LET f == fit[1] IN
       \/ /\ f.pc = "line164"
          /\ self.estimator.search
          /\ UNCHANGED self
       \/ /\ f.pc = "loop"
          /\ ~LoopDone(f.i, f.max_iter, f.num_passed)
          /\ UNCHANGED self
       \/ /\ f.pc = "loop"
          /\ ~LoopDone(f.i, f.max_iter, f.num_passed)
          /\ self' = [self EXCEPT
                        !.estimator =
                            EstimatorFit(@, f.norm_feat[1], f.target[1])]
    /\ last' = FitRecord(fit[1], Raise("Exception"))
    /\ fit' = None
    /\ calls' = <<>>
    /\ UNCHANGED <<nfits, brewVars>>

\* The configured estimator, search wrapper included, kept as the model's
\* estimator.
FinalEstimator_KeepsWrapper(est) == est

\* Line 195: self.estimator = model, the estimator the loop fit; a search
\* wrapper is no longer referred to by the Model.
FinalEstimator(est) == [est EXCEPT !.search = FALSE, !.cv = None]

\* Lines 195-197: the loop is over; the fitted estimator replaces the
\* configured one and the model is marked trained.
FitEnd ==
    /\ fit # None
    /\ fit[1].pc = "loop"
    /\ LoopDone(fit[1].i, fit[1].max_iter, fit[1].num_passed)
    /\ self' = [self EXCEPT !.estimator = FinalEstimator(@),
                            !.is_trained = TRUE]
    /\ fit' = None
    /\ last' = FitRecord(fit[1], [kind |-> "return", error |-> None,
                                  value |-> None])
    /\ calls' = <<>>
    /\ UNCHANGED <<nfits, brewVars>>

\* ------------------------------------------- the initial labels of fit
\* Lines 141-161 of fit on PSMs with two targets (rows 0 and 2) and a decoy
\* (row 1), for a new model and for a model that a fit call with at least
\* one round has returned from.
StartDatasets ==
    {[kind |-> "PsmDataset", cols |-> c, rows |-> {0, 1, 2}] :
        c \in ColumnOrders}

TrainedModel(m0, d, labels) ==
    LET x == Matrix(d, d.cols)
        sc == ScalerFit(m0.scaler, x)
        est == [m0.estimator EXCEPT
                  !.params = IF m0.estimator.search THEN "best" ELSE @]
    IN [m0 EXCEPT !.is_trained = TRUE,
                  !.features = Some(d.cols),
                  !.scaler = sc,
                  !.estimator =
                      FinalEstimator(EstimatorFit(est, transform(sc, x),
                                                  labels))]

InitStart ==
    /\ BrewIdle
    /\ \E m0 \in Models0, d0 \in StartDatasets :
         \E l0 \in LabelVectors(d0) :
           self \in {m0, TrainedModel(m0, d0, l0)}
    /\ \E d \in StartDatasets, tf \in Fdrs, mi \in 0..MaxIter :
         \E fl \in LabelVectors(d), dir \in Directions(d) :
           /\ fit = Some(Frame(self, d, tf, mi, dir, fl))
           /\ calls = <<Call("_find_best_feature", None, Some(tf), TRUE)>>
    /\ nfits = IF self.is_trained THEN 2 ELSE 1
    /\ last = None

NextStart ==
    \/ FitStartLabels
    \/ FitNormalize

SpecStart == InitStart /\ [][NextStart]_vars

NextModel ==
    \/ Score
    \/ FitBegin
    \/ FitStartLabels
    \/ FitNormalize
    \/ FitSearch
    \/ FitIter
    \/ FitRaises
    \/ FitEnd

SpecModel == InitModel /\ [][NextModel]_vars

\* ------------------------------------------------------ claims about Model
Scored == last # None /\ last[1].op \in {"decision_function", "predict"}

\* C7: decision_function and predict on a model on which no fit has
\* completed fail with the not-trained error whatever the features of the
\* input are, and leave the model as it was; a model is untrained until its
\* first fit call has ended.
C7_UntrainedModelRefusesToScore ==
    /\ (nfits = 0 \/ (nfits = 1 /\ fit # None)) => ~self.is_trained
    /\ (Scored /\ ~last[1].before.is_trained) =>
         /\ last[1].result = Raise("NotFittedError")
         /\ fit = None => self = last[1].before

C7_Witness ==
    /\ Scored
    /\ last[1].op = "predict"
    /\ ~last[1].before.is_trained
    /\ last[1].before.features = None
    /\ last[1].psms.cols = <<"f2", "f1">>
    /\ last[1].result.kind = "raise"

\* C8: on a trained model decision_function fails with the feature-mismatch
\* error when the input's feature names differ as a set from the training
\* ones; with the same set in any column order it succeeds and returns the
\* scores it returns for the training-time column order.
C8_FeatureSetIsChecked ==
    (last # None /\ last[1].op = "decision_function"
                 /\ last[1].before.is_trained) =>
      LET m == last[1].before
          d == last[1].psms
      IN IF Range(d.cols) # Range(m.features[1])
         THEN last[1].result = Raise("ValueError")
         ELSE /\ last[1].result.kind = "return"
              /\ last[1].result =
                   decision_function(m, [d EXCEPT !.cols = m.features[1]])

\* The same, for the models whose estimator has been fit by a loop round.
FeatureCheckWhenEstimatorFit ==
    (last # None /\ last[1].op = "decision_function"
                 /\ last[1].before.is_trained
                 /\ last[1].before.estimator.fitted # None) =>
      C8_FeatureSetIsChecked

\* C9: a fit call on an already trained model does not call
\* _find_best_feature, and gets its initial working labels from
\* _update_labels at train_fdr on the scores of the model's own
\* decision_function for the PSMs.
C9_WarmStartSkipsBestFeature ==
    (fit # None /\ fit[1].entry.is_trained /\ fit[1].pc = "line160") =>
      /\ \A k \in DOMAIN calls : calls[k].fn # "_find_best_feature"
      /\ decision_function(fit[1].entry, fit[1].psms).kind = "return"
      /\ \E k \in DOMAIN calls :
           calls[k] = Call("_update_labels",
                           decision_function(fit[1].entry, fit[1].psms).value,
                           Some(fit[1].train_fdr), TRUE)

\* A fit call has returned; the relabelling calls made by the rounds so far.
FitReturned ==
    /\ last # None
    /\ last[1].op = "fit"
    /\ last[1].result.kind = "return"

LoopCalls ==
    {k \in DOMAIN calls :
        /\ calls[k].fn = "_update_labels"
        /\ calls[k].scores # None
        /\ calls[k].scores[1].of = "decision"
        /\ calls[k].scores[1].x = fit[1].norm_feat[1]}

\* C12: a fit call that returns has run exactly max_iter rounds, each of
\* which fit the estimator, scored all rows and relabelled once, for every
\* max_iter >= 0 and whatever the pass counts were (also when a count was
\* zero or equal to the one before); it logged one pass count per round and
\* the model is marked trained.  While the loop runs, the rounds done never
\* exceed max_iter and the loop is left only once they equal it.
C12_FitRunsMaxIterRounds ==
    /\ (fit # None /\ fit[1].pc = "loop") =>
         /\ fit[1].i <= fit[1].max_iter
         /\ Len(fit[1].num_passed) = fit[1].i
         /\ Cardinality(LoopCalls) = fit[1].i
         /\ fit[1].i >= 1 =>
              /\ self.estimator.fitted # None
              /\ self.estimator.fitted[1].x = fit[1].norm_feat[1]
    /\ FitReturned =>
         /\ Len(last[1].num_passed) = last[1].max_iter
         /\ fit = None => self.is_trained

C12_Witness ==
    /\ FitReturned
    /\ fit = None
    /\ last[1].max_iter = 2
    /\ last[1].num_passed = <<0, 0>>
    /\ self.is_trained

\* The search of a fit call entered with a search wrapper has just run.
SearchDone ==
    /\ fit # None
    /\ fit[1].pc = "loop"
    /\ fit[1].i = 0
    /\ fit[1].entry.estimator.search

\* C13: when the estimator the fit call was entered with is a search
\* wrapper, the search is fit on the rows of the normalised matrix whose
\* initial working label of this call is not 0, recoded to {0, 1}, however
\* the initial labels were obtained.
C13_SearchUsesInitialLabels ==
    SearchDone =>
      /\ self.estimator.cv # None
      /\ self.estimator.cv[1].x = fit[1].norm_feat[1]
      /\ self.estimator.cv[1].batch = Batch(fit[1].target[1])

\* The same for the calls without an explicit starting feature.
SearchUsesBestFeatureLabels ==
    (SearchDone /\ fit[1].direction = None) => C13_SearchUsesInitialLabels

\* C14: in a fit call entered with a search wrapper the search is fit once,
\* before the first round, and not again while the loop runs; every round
\* fits the inner estimator carrying the best parameters of the search; when
\* the call has returned the model's estimator is that inner estimator and
\* no wrapper, so that a fit call on a model that a fit call has returned
\* from fits no search.
C14_SearchOncePerFit ==
    /\ fit # None =>
         LET f == fit[1] IN
         /\ f.searches = IF f.pc = "loop" /\ f.entry.estimator.search
                         THEN 1 ELSE 0
         /\ f.entry.is_trained => ~f.entry.estimator.search
         /\ (f.pc = "loop" /\ f.entry.estimator.search) =>
              /\ self.estimator.params = "best"
              /\ self.estimator.cv # None
              /\ f.i >= 1 => self.estimator.fitted # None
    /\ (FitReturned /\ fit = None) =>
         /\ ~self.estimator.search
         /\ self.estimator.cv = None
         /\ last[1].searches = IF last[1].before.estimator.search
                               THEN 1 ELSE 0
         /\ last[1].before.estimator.search =>
              self.estimator.params = "best"

C14_Witness ==
    /\ FitReturned
    /\ fit = None
    /\ nfits = 2
    /\ last[1].max_iter = 2
    /\ last[1].searches = 0
    /\ last[1].before.is_trained
    /\ last[1].before.estimator.params = "best"
    /\ self.estimator.params = "best"

\* The initial labels of a fit call with an explicit starting feature have
\* just been chosen; the calls that used the feature column as the score.
ExplicitStart ==
    /\ fit # None
    /\ fit[1].pc = "line160"
    /\ fit[1].direction # None

FeatureCalls(desc) ==
    {k \in DOMAIN calls :
        /\ calls[k].fn = "_update_labels"
        /\ calls[k].scores =
             Some(FeatureScores(fit[1].psms, fit[1].direction[1]))
        /\ calls[k].desc = desc}

\* C15: a fit call with an explicit starting feature on an untrained model
\* asks for the labels of that feature as the score in descending and in
\* ascending order and starts from the ones with more positive labels, from
\* the descending ones when the counts are equal; on a trained model the
\* feature is never used as a score and the labels come from the warm
\* start.
C15_ExplicitStartingFeature ==
    ExplicitStart =>
      LET f == fit[1] IN
      IF ~f.entry.is_trained
      THEN /\ Cardinality(FeatureCalls(TRUE)) = 1
           /\ Cardinality(FeatureCalls(FALSE)) = 1
           /\ f.desc_labels # None /\ f.asc_labels # None
           /\ f.start_labels =
                IF NumPos(f.asc_labels[1]) > NumPos(f.desc_labels[1])
                THEN f.asc_labels ELSE f.desc_labels
      ELSE /\ FeatureCalls(TRUE) = {} /\ FeatureCalls(FALSE) = {}
           /\ f.desc_labels = None /\ f.asc_labels = None
           /\ Len(calls) = 2
           /\ calls[2].scores # None
           /\ calls[2].scores[1].of = "decision"

C15_Witness ==
    /\ ExplicitStart
    /\ ~fit[1].entry.is_trained
    /\ NumPos(fit[1].desc_labels[1]) = 1
    /\ NumPos(fit[1].asc_labels[1]) = 1
    /\ fit[1].desc_labels # fit[1].asc_labels
    /\ fit[1].start_labels = fit[1].desc_labels

\* C16: every call a fit call makes of _find_best_feature or _update_labels
\* (for the initial labels, whichever way they are obtained, and in every
\* round) is given the train_fdr of that fit call as its threshold.
C16_LabelsUseTrainFdr ==
    fit # None =>
      \A k \in DOMAIN calls : calls[k].fdr = Some(fit[1].train_fdr)

\* The same for the fit calls that do not take the explicit starting
\* feature branch.
LabelsUseTrainFdrOtherwise ==
    (fit # None /\ (fit[1].direction = None \/ fit[1].entry.is_trained)) =>
      C16_LabelsUseTrainFdr

\* A step that is one round of the loop.
RoundStep ==
    /\ fit # None /\ fit' # None
    /\ fit[1].pc = "loop"
    /\ fit'[1].i = fit[1].i + 1

\* C17: a round of the loop fits the estimator on the rows of the normalised
\* matrix whose working label at the start of the round is not 0, with +1
\* recoded to 1 and -1 to 0, and on no row labelled 0; the scores of the
\* round are those of the estimator just fit for the whole normalised
\* matrix, and the relabelling of the round is computed from these scores.
C17_RoundFitsOnLabelledRows ==
    [][RoundStep =>
         LET labels == fit[1].target[1]
             fitted == self'.estimator.fitted
             relabel == calls'[Len(calls')]
         IN /\ fitted # None
            /\ fitted[1].x = fit[1].norm_feat[1]
            /\ fitted[1].batch.rows = {r \in DOMAIN labels : labels[r] # 0}
            /\ fitted[1].batch.targ =
                 {<<r, IF labels[r] = 1 THEN 1 ELSE 0>> :
                    r \in {q \in DOMAIN labels : labels[q] \in {-1, 1}}}
            /\ Len(calls') = Len(calls) + 1
            /\ relabel.fn = "_update_labels"
            /\ relabel.scores # None
            /\ relabel.scores[1].of = "decision"
            /\ relabel.scores[1].x = fit[1].norm_feat[1]
            /\ relabel.scores[1].fitted = fitted
            /\ relabel.scores[1].params = self'.estimator.params]_vars

C17_Witness ==
    /\ fit # None
    /\ fit[1].pc = "loop"
    /\ fit[1].i = 2
    /\ fit[1].num_passed = <<0, 1>>
    /\ self.estimator.fitted # None
    /\ self.estimator.fitted[1].batch.rows = {1}
    /\ self.estimator.fitted[1].batch.targ = {<<1, 0>>}

\* C18: a model whose is_trained flag is true has an estimator that a round
\* of the loop has fit, and decision_function on it for PSMs with the
\* model's feature set returns scores, after any fit calls with any
\* max_iter >= 0 and any estimator.
C18_TrainedMeansEstimatorFit ==
    /\ self.is_trained => self.estimator.fitted # None
    /\ (Scored /\ last[1].before.is_trained
               /\ Range(last[1].psms.cols) =
                    Range(last[1].before.features[1])) =>
         last[1].result.kind = "return"

\* The same for the models whose estimator a round has fit.
TrainedScoresWhenEstimatorFit ==
    (Scored /\ last[1].before.is_trained
            /\ last[1].before.estimator.fitted # None
            /\ Range(last[1].psms.cols) =
                 Range(last[1].before.features[1])) =>
      last[1].result.kind = "return"

\* A fit call has been left by an exception.
FitRaised ==
    /\ last # None
    /\ last[1].op = "fit"
    /\ last[1].result.kind = "raise"
    /\ fit = None

\* C19: when a fit call has been left by an exception, the model has the
\* features, scaler, estimator and is_trained flag it had before the call,
\* and decision_function gives for every PSM collection what it gave before
\* the call.
C19_FailedFitLeavesModelAsBefore ==
    FitRaised =>
      LET m == last[1].before IN
      /\ self.features = m.features
      /\ self.scaler = m.scaler
      /\ self.estimator = m.estimator
      /\ self.is_trained = m.is_trained
      /\ \A d \in Datasets : decision_function(self, d) = decision_function(m, d)

\* What does hold: a fit call left by an exception leaves is_trained as it
\* was.
FailedFitKeepsTrainedFlag ==
    FitRaised => self.is_trained = last[1].before.is_trained

====
